---- MODULE Spec2Model ----
(***************************************************************************)
(* A state-machine model of the scrollactive component.                   *)
(*                                                                         *)
(* Two revisions of the component are modelled side by side:               *)
(*   variant = "bounded"   : src/src/scrollactive.vue (band membership,    *)
(*                           getCurrentItem / itemClickHandler /           *)
(*                           scrollToTarget)                               *)
(*   variant = "unbounded" : src/unnamed/part_000 (last qualifying item    *)
(*                           wins, scrollToTargetElement)                  *)
(* The host (window, DOM, animation-frame queue, timers) is modelled as    *)
(* far as the component reads or writes it.                                *)
(***************************************************************************)
EXTENDS Integers, Sequences, FiniteSets, TLC

\* ------------------------------------------------------------------ bounds
\* Number of navigation elements (and of sections: item i links to section i).
NItems == 2
\* Largest animation duration, in clock units, a run is configured with.
MaxDuration == 2
\* Largest clock advance between two rendered frames: one frame may span a
\* whole animation.
MaxDt == MaxDuration
\* Number of scrollTo requests (clicks and programmatic calls) in one run, where
\* animations are to overlap.
MaxScrolls == 2
\* The same, where one animation is enough.
FewScrolls == 1
\* Largest value of the prop offset, and of the header above the sections.
MaxOffset == 2
\* Denominator of the eased progress: easing values are k/EDen, k in 0..EDen.
EDen == MaxDuration

Items == 1..NItems

\* ---------------------------------------------------------------- values
\* JavaScript null (data(): lastActiveItem: null; getElementById miss).
Null == 0
\* JavaScript undefined (`let currentItem;`, a missing event argument).
Undefined == -1
\* typeof targetId !== 'string': a scrollToTarget argument that is no string.
NotAString == -2
\* A string that is the id of no element of the document.
NoSuchId == NItems + 1
\* JavaScript NaN, as a value the easing function may return for NaN.
NaN == -3

Falsy(v) == v = Null \/ v = Undefined

Min(a, b) == IF a < b THEN a ELSE b
Max(a, b) == IF a > b THEN a ELSE b

VARIABLES
  \* ---- configuration (props)
  variant,            \* which revision of the component runs
  alwaysTrack,        \* prop alwaysTrack
  clickToScroll,      \* prop clickToScroll
  duration,           \* prop duration (clock units)
  offset,             \* prop offset
  bezierValid,        \* bezierEasing(...) accepts bezierEasingValue (else it throws)
  easing,             \* the function bezierEasing(...) returns, as a table:
                      \* easing[p] = k says easing(p / duration) = k / EDen
  easingNaN,          \* what that function returns for NaN (duration = 0): one
                      \* of its values, or NaN
  scrollBudget,       \* scrollTo requests the run's users make at most
  \* ---- document
  layout,             \* [top, height: Items -> Nat, containerTop, maxY]
  navInDom,           \* nav elements matching '.scrollactive-item'
  targetInDom,        \* sections getElementById finds
  active,             \* nav elements carrying activeClass
  clickListeners,     \* per nav element: its 'click' listener list
  scrollListeners,    \* the window's 'scroll' listener list
  scrollY,            \* window.scrollY / window.pageYOffset
  scrollPending,      \* a 'scroll' event is due at the next rendering
  \* ---- scheduling
  rafQueue,           \* animation-frame callbacks requested, in order
  nextHandle,         \* next handle requestAnimationFrame returns
  AFRequestID,        \* window.AFRequestID
  timers,             \* pending setTimeout callbacks (all re-attach onScroll)
  now,                \* timestamp of the last frame that ran callbacks
  \* ---- component data
  phase,              \* "created" | "mounted" | "destroyed"
  itemsIsNull,        \* scrollactiveItems is still null (data())
  scrollactiveItems,  \* the registered NodeList
  lastActiveItem,
  other,              \* a second instance of the component on the same page:
                      \* its [phase, timers, itemsIsNull, scrollactiveItems,
                      \* lastActiveItem, nScrolls]
  \* ---- observations of the last step taken
  emits,              \* the itemchanged events it emitted
  checked,            \* [done, item]: it ended with a finished tracker check, and
                      \* the item that check computed
  failed,             \* a handler it ran ended by an uncaught exception
  \* ---- history
  activations,        \* handler invocations of the last click
  nScrolls,           \* scrollTo requests so far
  refreshed           \* updated() has run

cfgVars == <<variant, alwaysTrack, clickToScroll, duration, offset, bezierValid,
             easing, easingNaN, scrollBudget>>
domVars == <<layout, navInDom, targetInDom, active, clickListeners,
             scrollListeners, scrollY, scrollPending>>
schedVars == <<rafQueue, nextHandle, AFRequestID, timers, now>>
dataVars == <<phase, itemsIsNull, scrollactiveItems, lastActiveItem, other>>
obsVars == <<emits, checked, failed, activations, nScrolls, refreshed>>
vars == <<cfgVars, domVars, schedVars, dataVars, obsVars>>

\* ------------------------------------------------------------ the document
\* Element ids: section i is element i; the sections' common offset parent.
ContainerEl == NItems + 1

\* element.offsetTop
ElOffsetTop(el) == IF el = ContainerEl THEN layout.containerTop ELSE layout.top[el]
\* element.offsetParent (null at the top of the chain)
OffsetParent(el) == IF el = ContainerEl THEN Null ELSE ContainerEl
\* target.clientHeight
ClientHeight(el) == layout.height[el]

\* document.getElementById(id)
GetElementById(id) == IF id \in targetInDom THEN id ELSE Null

\* scrollactiveItem.hash.substr(1): nav element i links to section i
HashTarget(item) == item

RECURSIVE WalkOffsetParents(_, _)
WalkOffsetParents(nextElement, yPosition) ==
  IF nextElement = Null THEN yPosition
  ELSE WalkOffsetParents(OffsetParent(nextElement), yPosition + ElOffsetTop(nextElement))

getOffsetTop(element) == WalkOffsetParents(element, 0)

\* EventTarget.addEventListener: a listener already in the list is not added again.
AddEventListener(list, handler) ==
  IF \E k \in 1..Len(list) : list[k] = handler THEN list ELSE Append(list, handler)

\* EventTarget.removeEventListener
RemoveEventListener(list, handler) == SelectSeq(list, LAMBDA h : h # handler)

\* window.cancelAnimationFrame(handle): an unknown handle cancels nothing.
CancelAnimationFrame(queue, handle) == SelectSeq(queue, LAMBDA cb : cb.handle # handle)

Listening == Len(scrollListeners) > 0

\* document.querySelectorAll('.scrollactive-item'), in document order
RECURSIVE QueryFrom(_, _)
QueryFrom(k, set) ==
  IF k > NItems THEN <<>>
  ELSE IF k \in set THEN <<k>> \o QueryFrom(k + 1, set) ELSE QueryFrom(k + 1, set)

QuerySelectorAll == QueryFrom(1, navInDom)

Registered == {scrollactiveItems[k] : k \in 1..Len(scrollactiveItems)}

\* ------------------------------------------------- the running state, as a value
\* The handlers below are functions from one such record to the next; an action
\* runs a handler on Cur and commits the result.
NoCheck == [done |-> FALSE, item |-> Null]

Cur ==
  [active |-> active, clickListeners |-> clickListeners,
   scrollListeners |-> scrollListeners, scrollY |-> scrollY,
   scrollPending |-> scrollPending, rafQueue |-> rafQueue,
   nextHandle |-> nextHandle, AFRequestID |-> AFRequestID, timers |-> timers,
   itemsIsNull |-> itemsIsNull, scrollactiveItems |-> scrollactiveItems,
   lastActiveItem |-> lastActiveItem, emits |-> <<>>, checked |-> NoCheck,
   failed |-> FALSE,
   activations |-> activations, nScrolls |-> nScrolls, threw |-> FALSE,
   self |-> "A",
   other |-> [phase |-> other.phase, timers |-> other.timers,
              itemsIsNull |-> other.itemsIsNull,
              scrollactiveItems |-> other.scrollactiveItems,
              lastActiveItem |-> other.lastActiveItem, nScrolls |-> other.nScrolls,
              emits |-> <<>>, checked |-> NoCheck, failed |-> FALSE, activations |-> 0]]

Commit(w) ==
  /\ active' = w.active
  /\ clickListeners' = w.clickListeners
  /\ scrollListeners' = w.scrollListeners
  /\ scrollY' = w.scrollY
  /\ scrollPending' = w.scrollPending
  /\ rafQueue' = w.rafQueue
  /\ nextHandle' = w.nextHandle
  /\ AFRequestID' = w.AFRequestID
  /\ timers' = w.timers
  /\ itemsIsNull' = w.itemsIsNull
  /\ scrollactiveItems' = w.scrollactiveItems
  /\ lastActiveItem' = w.lastActiveItem
  /\ emits' = w.emits
  /\ checked' = w.checked
  /\ failed' = w.failed
  /\ activations' = w.activations
  /\ nScrolls' = w.nScrolls
  /\ other' = [phase |-> w.other.phase, timers |-> w.other.timers,
               itemsIsNull |-> w.other.itemsIsNull,
               scrollactiveItems |-> w.other.scrollactiveItems,
               lastActiveItem |-> w.other.lastActiveItem, nScrolls |-> w.other.nScrolls]

\* The method objects of the two instances are different listeners: `this.onScroll`
\* of the second instance is "onScrollB", and so on.
Twin(handler) ==
  CASE handler = "onScroll" -> "onScrollB"
    [] handler = "onScrollB" -> "onScroll"
    [] handler = "itemClickHandler" -> "itemClickHandlerB"
    [] handler = "itemClickHandlerB" -> "itemClickHandler"
    [] handler = "scrollToTargetElement" -> "scrollToTargetElementB"
    [] handler = "scrollToTargetElementB" -> "scrollToTargetElement"

IsOther(handler) ==
  handler \in {"onScrollB", "itemClickHandlerB", "scrollToTargetElementB"}

\* The running state as the other instance sees it: `this` is the other
\* instance; the window, the document and window.AFRequestID are the same.
Swap(w) ==
  [w EXCEPT !.self = IF @ = "A" THEN "B" ELSE "A",
            !.scrollListeners = [k \in 1..Len(@) |-> Twin(@[k])],
            !.clickListeners = [i \in Items |-> [k \in 1..Len(@[i]) |-> Twin(@[i][k])]],
            !.timers = w.other.timers,
            !.itemsIsNull = w.other.itemsIsNull,
            !.scrollactiveItems = w.other.scrollactiveItems,
            !.lastActiveItem = w.other.lastActiveItem,
            !.nScrolls = w.other.nScrolls,
            !.emits = w.other.emits,
            !.checked = w.other.checked,
            !.failed = w.other.failed,
            !.activations = w.other.activations,
            !.other = [phase |-> w.other.phase, timers |-> w.timers,
                       itemsIsNull |-> w.itemsIsNull,
                       scrollactiveItems |-> w.scrollactiveItems,
                       lastActiveItem |-> w.lastActiveItem, nScrolls |-> w.nScrolls,
                       emits |-> w.emits, checked |-> w.checked, failed |-> w.failed,
                       activations |-> w.activations]]

\* An uncaught exception ends the handler: nothing after it runs.
Throw(w) == [w EXCEPT !.threw = TRUE, !.failed = TRUE, !.checked = NoCheck]

\* --------------------------------------------------------------- the tracker
\* getCurrentItem's forEach with the band closed at its bottom (<= for <).
RECURSIVE ScanBandsClosed(_, _, _, _, _)
ScanBandsClosed(k, items, act, currentItem, distanceFromTop) ==
  IF k > Len(items) THEN [threw |-> FALSE, currentItem |-> currentItem, active |-> act]
  ELSE LET scrollactiveItem == items[k]
           target == GetElementById(HashTarget(scrollactiveItem))
           cleared == act \ {scrollactiveItem}
       IN IF target = Null
          THEN [threw |-> TRUE, currentItem |-> currentItem, active |-> cleared]
          ELSE LET targetInViewTop == getOffsetTop(target) - offset
                   targetInViewBottom == targetInViewTop + ClientHeight(target)
                   targetIsInView == /\ distanceFromTop >= targetInViewTop
                                     /\ distanceFromTop <= targetInViewBottom
               IN ScanBandsClosed(k + 1, items, cleared,
                                  IF targetIsInView THEN scrollactiveItem ELSE currentItem,
                                  distanceFromTop)

\* getCurrentItem's forEach, from the k-th registered item on (bounded revision).
\* target.clientHeight of a null target is a TypeError, raised after the item's
\* class was removed.
RECURSIVE ScanBands(_, _, _, _, _)
ScanBands(k, items, act, currentItem, distanceFromTop) ==
  IF k > Len(items) THEN [threw |-> FALSE, currentItem |-> currentItem, active |-> act]
  ELSE LET scrollactiveItem == items[k]
           target == GetElementById(HashTarget(scrollactiveItem))
           cleared == act \ {scrollactiveItem}
       IN IF target = Null
          THEN [threw |-> TRUE, currentItem |-> currentItem, active |-> cleared]
          ELSE LET targetInViewTop == getOffsetTop(target) - offset
                   targetInViewBottom == targetInViewTop + ClientHeight(target)
                   targetIsInView == /\ distanceFromTop >= targetInViewTop
                                     /\ distanceFromTop < targetInViewBottom
               IN ScanBands(k + 1, items, cleared,
                            IF targetIsInView THEN scrollactiveItem ELSE currentItem,
                            distanceFromTop)

\* getCurrentItem without its classList.remove: the classes found are kept.
getCurrentItemKeepingClasses(w) ==
  IF w.itemsIsNull
  THEN [threw |-> TRUE, currentItem |-> Null, active |-> w.active]
  ELSE [ScanBands(1, w.scrollactiveItems, w.active, Null, w.scrollY)
          EXCEPT !.active = w.active]

getCurrentItem(w) ==
  IF w.itemsIsNull
  THEN [threw |-> TRUE, currentItem |-> Null, active |-> w.active]
  ELSE ScanBands(1, w.scrollactiveItems, w.active, Null, w.scrollY)

\* onScroll of the bounded revision.
onScroll(w) ==
  LET r == getCurrentItem(w)
      w1 == [w EXCEPT !.active = r.active]
  IN IF r.threw THEN Throw(w1)
     ELSE LET currentItem == r.currentItem
              w2 == IF currentItem # w1.lastActiveItem
                    THEN [w1 EXCEPT !.emits = Append(@, [currentItem |-> currentItem,
                                                        previousItem |-> w1.lastActiveItem]),
                                    !.lastActiveItem = currentItem]
                    ELSE w1
          IN [w2 EXCEPT !.active = IF Falsy(currentItem) THEN @ ELSE @ \cup {currentItem},
                        !.checked = [done |-> TRUE, item |-> currentItem]]

\* onScroll's forEach in the unbounded revision: no upper bound, and
\* getOffsetTop(null) is 0, so nothing throws.
RECURSIVE ScanUnbounded(_, _, _, _, _)
ScanUnbounded(k, items, act, currentItem, distanceFromTop) ==
  IF k > Len(items) THEN [threw |-> FALSE, currentItem |-> currentItem, active |-> act]
  ELSE LET scrollactiveItem == items[k]
           target == GetElementById(HashTarget(scrollactiveItem))
       IN ScanUnbounded(k + 1, items, act \ {scrollactiveItem},
                        IF distanceFromTop >= getOffsetTop(target) - offset
                        THEN scrollactiveItem ELSE currentItem,
                        distanceFromTop)

\* onScroll of the unbounded revision.
onScrollU(w) ==
  IF w.itemsIsNull THEN Throw(w)
  ELSE LET r == ScanUnbounded(1, w.scrollactiveItems, w.active, Undefined, w.scrollY)
           currentItem == r.currentItem
           w1 == [w EXCEPT !.active = r.active]
           w2 == IF currentItem # w1.lastActiveItem
                 THEN [w1 EXCEPT !.emits = IF Falsy(w1.lastActiveItem) THEN @
                                           ELSE Append(@, [currentItem |-> currentItem,
                                                           previousItem |-> w1.lastActiveItem]),
                                 !.lastActiveItem = currentItem]
                 ELSE w1
       IN [w2 EXCEPT !.active = IF Falsy(currentItem) THEN @ ELSE @ \cup {currentItem},
                     !.checked = [done |-> TRUE, item |-> currentItem]]

\* this.onScroll, whichever revision runs
OnScrollHandler(w) == IF variant = "bounded" THEN onScroll(w) ELSE onScrollU(w)

\* The window dispatches 'scroll' to the listeners registered when it fires.
RECURSIVE DispatchScroll(_, _, _)
DispatchScroll(w, listeners, k) ==
  IF k > Len(listeners) THEN w
  ELSE LET w1 == IF IsOther(listeners[k]) THEN Swap(OnScrollHandler(Swap(w)))
                 ELSE OnScrollHandler(w)
       IN DispatchScroll([w1 EXCEPT !.threw = FALSE], listeners, k + 1)

\* -------------------------------------------------------------- the registry
\* The name under which a revision registers its click handler.
ClickHandler == IF variant = "bounded" THEN "itemClickHandler" ELSE "scrollToTargetElement"

\* setScrollactiveItems assigning the list it found before validating it.
setScrollactiveItemsAssigningFirst(w) ==
  LET found == QuerySelectorAll
      w1 == [w EXCEPT !.scrollactiveItems = found, !.itemsIsNull = FALSE]
  IN IF \E k \in 1..Len(found) : GetElementById(HashTarget(found[k])) = Null
     THEN Throw(w1)
     ELSE [w1 EXCEPT !.clickListeners =
                       [i \in Items |->
                          IF i \notin {found[k] : k \in 1..Len(found)} THEN @[i]
                          ELSE IF clickToScroll
                               THEN AddEventListener(@[i], ClickHandler)
                               ELSE RemoveEventListener(@[i], ClickHandler)]]

\* setScrollactiveItems registering a new function object at every call (as a
\* handler bound anew would be): the host cannot recognise it as present.
setScrollactiveItemsRebinding(w) ==
  LET found == QuerySelectorAll
  IN IF \E k \in 1..Len(found) : GetElementById(HashTarget(found[k])) = Null
     THEN Throw(w)
     ELSE [w EXCEPT !.scrollactiveItems = found,
                    !.itemsIsNull = FALSE,
                    !.clickListeners =
                       [i \in Items |->
                          IF i \notin {found[k] : k \in 1..Len(found)} THEN @[i]
                          ELSE IF clickToScroll
                               THEN Append(@[i], ClickHandler)
                               ELSE RemoveEventListener(@[i], ClickHandler)]]

\* setScrollactiveItems (the same in both revisions, but for the handler's name):
\* validation throws before anything is assigned.
setScrollactiveItems(w) ==
  LET found == QuerySelectorAll
  IN IF \E k \in 1..Len(found) : GetElementById(HashTarget(found[k])) = Null
     THEN Throw(w)
     ELSE [w EXCEPT !.scrollactiveItems = found,
                    !.itemsIsNull = FALSE,
                    !.clickListeners =
                       [i \in Items |->
                          IF i \notin {found[k] : k \in 1..Len(found)} THEN @[i]
                          ELSE IF clickToScroll
                               THEN AddEventListener(@[i], ClickHandler)
                               ELSE RemoveEventListener(@[i], ClickHandler)]]

\* -------------------------------------------------------------- the animator
\* window.scrollTo(0, y) with y = a.perTick / EDen: the position is clamped to
\* the scrollable range and kept in whole pixels, and a NaN is taken as 0; a
\* changed position queues 'scroll'.
WindowScrollTo(w, a) ==
  LET y == IF a.isNaN THEN 0 ELSE Max(0, Min(layout.maxY, a.perTick \div EDen))
  IN [w EXCEPT !.scrollY = y, !.scrollPending = @ \/ y # w.scrollY]

\* window.requestAnimationFrame(step) for the closure cb; returns the handle used.
RequestAnimationFrame(w, cb) ==
  [w EXCEPT !.rafQueue = Append(@, [cb EXCEPT !.handle = w.nextHandle]),
            !.nextHandle = @ + 1]

\* The closure scrollToTarget / scrollToTargetElement creates: the instance it
\* belongs to (vm), the constants it captures, `start`, and (as history) whether
\* tracking was paused for it.
NewClosure(w, target, paused) ==
  LET targetDistanceFromTop == getOffsetTop(target)
      startingY == w.scrollY
  IN [handle |-> 0,
      owner |-> w.self,
      targetDistanceFromTop |-> targetDistanceFromTop,
      startingY |-> startingY,
      difference |-> targetDistanceFromTop - startingY,
      start |-> Null,
      paused |-> paused]

\* scrollToTarget(targetId) of the bounded revision. The first frame's handle is
\* not stored in window.AFRequestID (line 255).
scrollToTarget(w, targetId) ==
  LET w0 == [w EXCEPT !.nScrolls = @ + 1]
  IN IF targetId = NotAString THEN Throw(w0)
     ELSE LET target == GetElementById(targetId)
              w1 == IF ~alwaysTrack
                    THEN [w0 EXCEPT !.scrollListeners = RemoveEventListener(@, "onScroll"),
                                    !.rafQueue = CancelAnimationFrame(@, w0.AFRequestID)]
                    ELSE w0
          IN IF ~bezierValid THEN Throw(w1)
             ELSE RequestAnimationFrame(w1, NewClosure(w1, target, ~alwaysTrack))

\* itemClickHandler(event) of the bounded revision.
itemClickHandler(w, item) ==
  LET w1 == scrollToTarget(w, HashTarget(item))
  IN IF w1.threw THEN w1
     ELSE [w1 EXCEPT !.emits = Append(@, [currentItem |-> item, previousItem |-> Undefined])]

\* scrollToTargetElement(event) of the unbounded revision.
scrollToTargetElement(w, item) ==
  LET w0 == [w EXCEPT !.nScrolls = @ + 1]
      w1 == IF ~alwaysTrack
            THEN [w0 EXCEPT !.scrollListeners = RemoveEventListener(@, "onScroll"),
                            !.rafQueue = CancelAnimationFrame(@, w0.AFRequestID),
                            !.active = (@ \ {w0.scrollactiveItems[k] :
                                               k \in 1..Len(w0.scrollactiveItems)})
                                       \cup {item}]
            ELSE w0
      target == GetElementById(HashTarget(item))
  IN IF ~bezierValid THEN Throw(w1)
     ELSE RequestAnimationFrame(w1, NewClosure(w1, target, ~alwaysTrack))

\* The click handler registered under `handler`, run by the instance it is a
\* method of.
RunClickHandler(w, handler, item) ==
  LET this == IF IsOther(handler) THEN Swap(w) ELSE w
      done == IF handler \in {"itemClickHandler", "itemClickHandlerB"}
              THEN itemClickHandler(this, item)
              ELSE scrollToTargetElement(this, item)
  IN IF IsOther(handler) THEN Swap(done) ELSE done

\* A click is dispatched to every listener of the element, in order.
RECURSIVE DispatchClick(_, _, _, _)
DispatchClick(w, listeners, k, item) ==
  IF k > Len(listeners) THEN w
  ELSE DispatchClick([RunClickHandler(w, listeners[k], item)
                        EXCEPT !.threw = FALSE, !.activations = @ + 1],
                     listeners, k + 1, item)

\* The arithmetic of one frame, shared by both revisions' step(timestamp):
\* lines 225-233 (bounded), 193-201 (unbounded).  progress / duration is NaN for
\* 0 / 0, and a NaN is not >= 1.  perTick is kept as a multiple of 1 / EDen.
StepArith(cb, timestamp) ==
  LET start == IF Falsy(cb.start) THEN timestamp ELSE cb.start
      elapsed == timestamp - start
      progress == IF elapsed >= duration THEN duration ELSE elapsed
      eased == IF duration = 0 /\ elapsed = 0 THEN easingNaN ELSE easing[progress]
  IN [start |-> start,
      progress |-> progress,
      isNaN |-> eased = NaN,
      perTick |-> IF eased = NaN THEN 0
                  ELSE cb.startingY * EDen + eased * (cb.difference - offset)]

\* step(timestamp) of the bounded revision without the setTimeout of its
\* completion branch: the listener is not attached again.
stepWithoutReattach(w, cb, timestamp) ==
  LET a == StepArith(cb, timestamp)
      w1 == WindowScrollTo(w, a)
  IN IF a.progress < duration
     THEN [RequestAnimationFrame(w1, [cb EXCEPT !.start = a.start])
             EXCEPT !.AFRequestID = w1.nextHandle]
     ELSE IF ~alwaysTrack
          THEN LET r == getCurrentItem(w1)
                   w2 == [w1 EXCEPT !.active = r.active]
               IN IF r.threw THEN Throw(w2)
                  ELSE [w2 EXCEPT !.active = IF Falsy(r.currentItem) THEN @
                                             ELSE @ \cup {r.currentItem},
                                  !.checked = [done |-> TRUE, item |-> r.currentItem]]
          ELSE w1

\* step(timestamp) of the bounded revision.
step(w, cb, timestamp) ==
  LET a == StepArith(cb, timestamp)
      w1 == WindowScrollTo(w, a)
  IN IF a.progress < duration
     THEN [RequestAnimationFrame(w1, [cb EXCEPT !.start = a.start])
             EXCEPT !.AFRequestID = w1.nextHandle]
     ELSE IF ~alwaysTrack
          THEN LET r == getCurrentItem(w1)
                   w2 == [w1 EXCEPT !.active = r.active]
               IN IF r.threw THEN Throw(w2)
                  ELSE [w2 EXCEPT !.active = IF Falsy(r.currentItem) THEN @
                                             ELSE @ \cup {r.currentItem},
                                  !.checked = [done |-> TRUE, item |-> r.currentItem],
                                  !.timers = @ + 1]
          ELSE w1

\* step(timestamp) of the unbounded revision.
stepU(w, cb, timestamp) ==
  LET a == StepArith(cb, timestamp)
      w1 == WindowScrollTo(w, a)
  IN IF a.progress < duration
     THEN [RequestAnimationFrame(w1, [cb EXCEPT !.start = a.start])
             EXCEPT !.AFRequestID = w1.nextHandle]
     ELSE [w1 EXCEPT !.scrollListeners = AddEventListener(@, "onScroll")]

\* The closure's step, run with the instance it belongs to as vm.
RunStep(w, cb, timestamp) ==
  LET vm == IF cb.owner # w.self THEN Swap(w) ELSE w
      done == IF variant = "bounded" THEN step(vm, cb, timestamp)
              ELSE stepU(vm, cb, timestamp)
  IN IF cb.owner # w.self THEN Swap(done) ELSE done

\* The frame runs the callbacks that were queued before it, in order; what they
\* request goes to the next frame.
RECURSIVE RunCallbacks(_, _, _, _)
RunCallbacks(w, batch, k, timestamp) ==
  IF k > Len(batch) THEN w
  ELSE RunCallbacks([RunStep(w, batch[k], timestamp) EXCEPT !.threw = FALSE],
                    batch, k + 1, timestamp)

\* ------------------------------------------------------------- configurations
\* The easing tables of a duration: monotone, 0 at progress 0, 1 at the end.
\* (With duration 0 the ratio is NaN and the table is not read.)
EasingTables(d) ==
  {e \in [0..MaxDuration -> 0..EDen] :
     /\ e[0] = 0
     /\ \A p \in 1..MaxDuration : p >= d => e[p] = EDen
     /\ \A p \in 0..(MaxDuration - 1) : e[p] <= e[p + 1]}

\* The table of the straight line.
LinearEasing(d) ==
  [p \in 0..MaxDuration |-> IF p = 0 THEN 0 ELSE IF p >= d THEN EDen ELSE (p * EDen) \div d]

\* Sections anywhere and of any height, zero included, overlapping or apart.
GeneralLayouts ==
  {[top |-> t, height |-> h, containerTop |-> 0, maxY |-> 2 * MaxOffset] :
     t \in [Items -> 0..MaxOffset], h \in [Items -> 0..MaxOffset]}

\* Sections of height 1 stacked under a header of height containerTop; the
\* window can scroll to the bottom of the last section.
StackedLayout(containerTop) ==
  [top |-> [i \in Items |-> i - 1],
   height |-> [i \in Items |-> 1],
   containerTop |-> containerTop,
   maxY |-> NItems + containerTop - 1]

\* The usual run: a header of height 2, offset 1, the longest duration, the
\* straight easing line, the window at the top, every section in the document.
Usual ==
  [variants |-> {"bounded", "unbounded"}, tracks |-> BOOLEAN,
   durations |-> {MaxDuration}, offsets |-> {1}, allEasings |-> FALSE,
   layouts |-> {StackedLayout(2)}, tops |-> {0}, targets |-> {Items},
   clicks |-> {TRUE}, beziers |-> {TRUE}, budget |-> MaxScrolls]

\* The state data() and the props leave, for a configuration drawn from the sets
\* of c; nothing has run yet.
InitWith(c) ==
  /\ variant \in c.variants
  /\ alwaysTrack \in c.tracks
  /\ clickToScroll \in c.clicks
  /\ duration \in c.durations
  /\ offset \in c.offsets
  /\ bezierValid \in c.beziers
  /\ easing \in (IF c.allEasings THEN EasingTables(duration) ELSE {LinearEasing(duration)})
  /\ easingNaN \in (IF duration = 0 THEN 0..EDen \cup {NaN} ELSE {0})
  /\ scrollBudget = c.budget
  /\ layout \in c.layouts
  /\ navInDom = Items
  /\ targetInDom \in c.targets
  /\ active = {}
  /\ clickListeners = [i \in Items |-> <<>>]
  /\ scrollListeners = <<>>
  /\ scrollY \in {y \in c.tops : y <= layout.maxY}
  /\ scrollPending = FALSE
  /\ rafQueue = <<>>
  /\ nextHandle = 1
  /\ AFRequestID = Undefined
  /\ timers = 0
  /\ now = 0
  /\ phase = "created"
  /\ itemsIsNull = TRUE
  /\ scrollactiveItems = <<>>
  /\ lastActiveItem = Null
  /\ other = [phase |-> "created", timers |-> 0, itemsIsNull |-> TRUE,
              scrollactiveItems |-> <<>>, lastActiveItem |-> Null, nScrolls |-> 0]
  /\ emits = <<>>
  /\ checked = NoCheck
  /\ failed = FALSE
  /\ activations = 0
  /\ nScrolls = 0
  /\ refreshed = FALSE

\* -------------------------------------------------------------------- actions
\* mounted()
mounted(w) ==
  LET w1 == setScrollactiveItems(w)
      w2 == IF w1.threw THEN w1 ELSE OnScrollHandler(w1)
  IN IF w2.threw THEN w2
     ELSE [w2 EXCEPT !.scrollListeners = AddEventListener(@, "onScroll")]

\* beforeDestroy()
beforeDestroy(w) ==
  [w EXCEPT !.scrollListeners = RemoveEventListener(@, "onScroll"),
            !.rafQueue = CancelAnimationFrame(@, w.AFRequestID)]

\* The callback of setTimeout(..., 100) at line 247.
reattach(w) ==
  [w EXCEPT !.timers = @ - 1, !.scrollListeners = AddEventListener(@, "onScroll")]

\* The component is mounted.
Mounted ==
  /\ phase = "created"
  /\ Commit(mounted(Cur))
  /\ phase' = "mounted"
  /\ UNCHANGED <<cfgVars, layout, navInDom, targetInDom, now, refreshed>>

\* updated()
Updated ==
  /\ phase = "mounted"
  /\ Commit(setScrollactiveItems(Cur))
  /\ refreshed' = TRUE
  /\ UNCHANGED <<cfgVars, layout, navInDom, targetInDom, now, phase>>

\* The component is destroyed.
BeforeDestroy ==
  /\ phase = "mounted"
  /\ Commit(beforeDestroy(Cur))
  /\ phase' = "destroyed"
  /\ UNCHANGED <<cfgVars, layout, navInDom, targetInDom, now, refreshed>>

\* The user clicks a navigation element that has a click listener.
Click(item) ==
  /\ phase = "mounted"
  /\ item \in navInDom
  /\ Len(clickListeners[item]) > 0
  /\ nScrolls < scrollBudget
  /\ Commit(DispatchClick([Cur EXCEPT !.activations = 0], clickListeners[item], 1, item))
  /\ UNCHANGED <<cfgVars, layout, navInDom, targetInDom, now, phase, refreshed>>

\* The embedding application calls scrollToTarget(targetId) (bounded revision).
ScrollToCall(targetId) ==
  /\ phase = "mounted"
  /\ variant = "bounded"
  /\ nScrolls < scrollBudget
  /\ Commit([scrollToTarget(Cur, targetId) EXCEPT !.threw = FALSE])
  /\ UNCHANGED <<cfgVars, layout, navInDom, targetInDom, now, phase, refreshed>>

\* The user scrolls the window; the 'scroll' event fires at the next rendering.
UserScroll(y) ==
  /\ phase = "mounted"
  /\ y # scrollY
  /\ Commit([Cur EXCEPT !.scrollY = y, !.scrollPending = TRUE])
  /\ UNCHANGED <<cfgVars, layout, navInDom, targetInDom, now, phase, refreshed>>

\* A rendering with no animation-frame callback queued: the pending 'scroll'
\* event is dispatched.
ScrollEvent ==
  /\ scrollPending
  /\ rafQueue = <<>>
  /\ Commit(DispatchScroll([Cur EXCEPT !.scrollPending = FALSE], scrollListeners, 1))
  /\ UNCHANGED <<cfgVars, layout, navInDom, targetInDom, now, phase, refreshed>>

\* A rendering with callbacks queued: the pending 'scroll' event is dispatched
\* first, then the callbacks run with the frame's timestamp.  Timestamps are only
\* ever compared with the `start` of a queued closure, so once no closure is left
\* the clock's origin is moved to the present.
AnimationFrame(dt) ==
  /\ rafQueue # <<>>
  /\ LET w0 == IF scrollPending
               THEN DispatchScroll([Cur EXCEPT !.scrollPending = FALSE], scrollListeners, 1)
               ELSE Cur
         w1 == RunCallbacks([w0 EXCEPT !.rafQueue = <<>>], rafQueue, 1, now + dt)
     IN /\ Commit(w1)
        /\ now' = IF w1.rafQueue = <<>> THEN 0 ELSE now + dt
  /\ UNCHANGED <<cfgVars, layout, navInDom, targetInDom, phase, refreshed>>

\* The callback of setTimeout(..., 100) at line 247 runs.
TimerFires ==
  /\ timers > 0
  /\ Commit(reattach(Cur))
  /\ UNCHANGED <<cfgVars, layout, navInDom, targetInDom, now, phase, refreshed>>

\* The second instance is mounted.
OtherMounted ==
  /\ other.phase = "created"
  /\ Commit([Swap([mounted(Swap(Cur)) EXCEPT !.threw = FALSE])
               EXCEPT !.other.phase = "mounted"])
  /\ UNCHANGED <<cfgVars, layout, navInDom, targetInDom, now, phase, refreshed>>

\* The second instance is destroyed.
OtherBeforeDestroy ==
  /\ other.phase = "mounted"
  /\ Commit([Swap(beforeDestroy(Swap(Cur))) EXCEPT !.other.phase = "destroyed"])
  /\ UNCHANGED <<cfgVars, layout, navInDom, targetInDom, now, phase, refreshed>>

\* The embedding application calls scrollToTarget(targetId) of the second
\* instance (bounded revision).
OtherScrollToCall(targetId) ==
  /\ other.phase = "mounted"
  /\ variant = "bounded"
  /\ other.nScrolls < scrollBudget
  /\ Commit(Swap([scrollToTarget(Swap(Cur), targetId) EXCEPT !.threw = FALSE]))
  /\ UNCHANGED <<cfgVars, layout, navInDom, targetInDom, now, phase, refreshed>>

\* The setTimeout callback of the second instance runs.
OtherTimerFires ==
  /\ other.timers > 0
  /\ Commit(Swap(reattach(Swap(Cur))))
  /\ UNCHANGED <<cfgVars, layout, navInDom, targetInDom, now, phase, refreshed>>

\* The parent changes the prop clickToScroll.
SetClickToScroll(b) ==
  /\ phase = "mounted"
  /\ b # clickToScroll
  /\ clickToScroll' = b
  /\ Commit(Cur)
  /\ UNCHANGED <<variant, alwaysTrack, duration, offset, bezierValid, easing, easingNaN,
                 scrollBudget, layout, navInDom, targetInDom, now, phase, refreshed>>

\* An element gains or loses the class 'scrollactive-item' (or leaves and
\* re-enters the document): what it carries (listeners, classes) stays on it.
NavDomChange(item) ==
  /\ phase = "mounted"
  /\ navInDom' = IF item \in navInDom THEN navInDom \ {item} ELSE navInDom \cup {item}
  /\ Commit(Cur)
  /\ UNCHANGED <<cfgVars, layout, targetInDom, now, phase, refreshed>>

\* A section leaves or re-enters the document.
TargetDomChange(id) ==
  /\ phase = "mounted"
  /\ targetInDom' = IF id \in targetInDom THEN targetInDom \ {id} ELSE targetInDom \cup {id}
  /\ Commit(Cur)
  /\ UNCHANGED <<cfgVars, layout, navInDom, now, phase, refreshed>>

\* ------------------------------------------------------------ specifications
\* The controller's life: mount, clicks and calls, user scrolling, frames, timers,
\* teardown; the window starts at the top or inside the first section.
Init == InitWith([Usual EXCEPT !.tops = {0, 2}])

Next ==
  \/ Mounted
  \/ BeforeDestroy
  \/ \E item \in Items : Click(item)
  \/ \E targetId \in Items \cup {NoSuchId, NotAString} : ScrollToCall(targetId)
  \/ \E y \in 0..layout.maxY : UserScroll(y)
  \/ ScrollEvent
  \/ \E dt \in 1..MaxDt : AnimationFrame(dt)
  \/ TimerFires

Spec == Init /\ [][Next]_vars

\* alwaysTrack = false throughout, no teardown, a static document.  The host
\* runs a due timer.
LiveInit == InitWith([Usual EXCEPT !.tracks = {FALSE}])

LiveNext ==
  \/ Mounted
  \/ \E item \in Items : Click(item)
  \/ \E targetId \in Items : ScrollToCall(targetId)
  \/ ScrollEvent
  \/ \E dt \in 1..MaxDt : AnimationFrame(dt)
  \/ TimerFires

LiveSpec == LiveInit /\ [][LiveNext]_vars /\ WF_vars(TimerFires)

\* Re-renders over a changing set of navigation elements, with clickToScroll on
\* and short animations.
BindInit == InitWith([Usual EXCEPT !.durations = {1}, !.budget = FewScrolls])

BindNext ==
  \/ Mounted
  \/ Updated
  \/ \E item \in Items : NavDomChange(item)
  \/ \E item \in Items : Click(item)
  \/ \E dt \in 1..MaxDt : AnimationFrame(dt)
  \/ ScrollEvent
  \/ TimerFires

BindSpec == BindInit /\ [][BindNext]_vars

\* The tracker under user scrolling, re-renders and short animations.
TrackInit == InitWith([Usual EXCEPT !.durations = {1}, !.budget = FewScrolls])

TrackNext ==
  \/ Mounted
  \/ Updated
  \/ \E item \in Items : Click(item)
  \/ \E y \in 0..layout.maxY : UserScroll(y)
  \/ ScrollEvent
  \/ \E dt \in 1..MaxDt : AnimationFrame(dt)
  \/ TimerFires

TrackSpec == TrackInit /\ [][TrackNext]_vars

\* One animation, for every start, target, offset, duration and easing table.
AnimInit ==
  InitWith([Usual EXCEPT !.durations = 0..MaxDuration, !.offsets = 0..MaxOffset,
                         !.allEasings = TRUE,
                         !.layouts = {StackedLayout(h) : h \in 0..MaxOffset},
                         !.tops = 0..(NItems + MaxOffset), !.budget = FewScrolls])

AnimNext ==
  \/ Mounted
  \/ \E item \in Items : Click(item)
  \/ \E dt \in 1..MaxDt : AnimationFrame(dt)

AnimSpec == AnimInit /\ [][AnimNext]_vars

\* Discovery over a changing document: navigation elements and sections come
\* and go, clickToScroll is switched, the window starts at the top or inside a
\* section; no scrolling.
DiscoverInit ==
  InitWith([Usual EXCEPT !.tracks = {FALSE}, !.tops = {0, 2}, !.targets = SUBSET Items,
                         !.clicks = BOOLEAN, !.budget = 0])

DiscoverNext ==
  \/ Mounted
  \/ Updated
  \/ \E item \in Items : NavDomChange(item)
  \/ \E id \in Items : TargetDomChange(id)
  \/ \E b \in BOOLEAN : SetClickToScroll(b)

DiscoverSpec == DiscoverInit /\ [][DiscoverNext]_vars

\* The bounded tracker under user scrolling, over every layout of the sections.
BandInit ==
  InitWith([Usual EXCEPT !.variants = {"bounded"}, !.tracks = {FALSE},
                         !.offsets = {0, 1}, !.layouts = GeneralLayouts, !.budget = 0])

BandNext ==
  \/ Mounted
  \/ \E y \in 0..layout.maxY : UserScroll(y)
  \/ ScrollEvent

BandSpec == BandInit /\ [][BandNext]_vars

\* The tracker of both revisions under user scrolling, over every layout of the
\* sections, while sections leave and re-enter the document after discovery.
\* Discovery succeeds at mounted() and is not repeated: only a check can fail.
CheckInit ==
  InitWith([Usual EXCEPT !.tracks = {FALSE}, !.layouts = GeneralLayouts, !.budget = 0])

CheckNext ==
  \/ Mounted
  \/ \E id \in Items : TargetDomChange(id)
  \/ \E y \in 0..layout.maxY : UserScroll(y)
  \/ ScrollEvent

CheckSpec == CheckInit /\ [][CheckNext]_vars

\* Scroll requests under a bezierEasingValue that bezierEasing accepts or
\* rejects, with user scrolling around them.
ConfigInit == InitWith([Usual EXCEPT !.beziers = BOOLEAN, !.budget = FewScrolls])

ConfigNext ==
  \/ Mounted
  \/ \E item \in Items : Click(item)
  \/ \E targetId \in Items : ScrollToCall(targetId)
  \/ \E y \in 0..layout.maxY : UserScroll(y)
  \/ ScrollEvent
  \/ \E dt \in 1..MaxDt : AnimationFrame(dt)
  \/ TimerFires

ConfigSpec == ConfigInit /\ [][ConfigNext]_vars

\* Two instances of the bounded revision on one page, alwaysTrack off: each is
\* mounted and asked to scroll, the second one is also destroyed.
TwinInit ==
  InitWith([Usual EXCEPT !.variants = {"bounded"}, !.tracks = {FALSE},
                         !.budget = FewScrolls])

TwinNext ==
  \/ Mounted
  \/ OtherMounted
  \/ \E targetId \in Items : ScrollToCall(targetId)
  \/ \E targetId \in Items : OtherScrollToCall(targetId)
  \/ OtherBeforeDestroy
  \/ ScrollEvent
  \/ \E dt \in 1..MaxDt : AnimationFrame(dt)
  \/ TimerFires
  \/ OtherTimerFires

TwinSpec == TwinInit /\ [][TwinNext]_vars

\* ------------------------------------------------------------------ properties
\* C1: at most one animation loop is alive: whatever scrollTo calls and clicks
\* were made, and whatever alwaysTrack is, at most one animation-frame callback of
\* the component is outstanding.
OneAnimationLoop == Len(rafQueue) <= 1

\* C2: tracking stays suspended for the whole of a paused animation: while an
\* animation started with alwaysTrack = false still has a frame scheduled, the
\* window's scroll listener is detached.
PausedAnimationUntracked ==
  \A k \in 1..Len(rafQueue) : rafQueue[k].paused => ~Listening

\* Every animation started so far has run to its end.
AnimationsOver == phase = "mounted" /\ nScrolls > 0 /\ rafQueue = <<>>

\* C3: listener restoration: with alwaysTrack = false and no teardown, once the
\* animations started have completed, the scroll listener is eventually attached
\* again (the host runs the deferred timer), so that a later scroll notification
\* reaches the tracker.
ListenerRestoration == AnimationsOver ~> Listening

\* C3, its case: the animations are over, the deferred timer has run, the
\* listener is attached and a scroll notification has since been checked.
RestoredAndTracking ==
  /\ AnimationsOver
  /\ Listening
  /\ timers = 0
  /\ variant = "bounded"
  /\ checked.done

\* C4: teardown is final: once beforeDestroy has run, the scroll listener is
\* detached and no animation-frame callback is outstanding, whatever was in
\* flight when it ran.
TeardownFinal == phase = "destroyed" => (~Listening /\ rafQueue = <<>>)

\* C5: no spurious initial event: in the bounded revision mounted() emits no
\* itemchanged from its own first check, wherever the window is scrolled to.
NoInitialEvent ==
  [][(variant = "bounded" /\ phase = "created" /\ phase' = "mounted") => emits' = <<>>]_vars

\* C6: in the bounded revision every itemchanged emitted comes from a check that
\* found a change: it carries the item the check computed (the new
\* lastActiveItem) and the previous lastActiveItem, and these differ; no other
\* operation emits one.
EmitsOnlyFoundChanges ==
  [][variant = "bounded" =>
       \A k \in 1..Len(emits') :
          /\ emits'[k].currentItem = lastActiveItem'
          /\ emits'[k].previousItem = lastActiveItem
          /\ lastActiveItem' # lastActiveItem]_vars

\* C7: in the unbounded revision every change a check finds after the one of
\* mounted() is notified, with the new and the previous determination,
\* whatever the previous determination was.
EveryChangeNotified ==
  [][(variant = "unbounded" /\ phase # "created" /\ lastActiveItem' # lastActiveItem) =>
       emits' = <<[currentItem |-> lastActiveItem', previousItem |-> lastActiveItem]>>]_vars

\* C8: idempotent binding: with clickToScroll on, however often the registry was
\* refreshed, no navigation element carries the click handler twice, every
\* registered one carries it once, and a click starts one activation.
SingleBinding ==
  /\ \A i \in Items : Len(clickListeners[i]) <= 1
  /\ phase = "mounted" => \A i \in Registered : clickListeners[i] = <<ClickHandler>>
  /\ activations <= 1

\* C8, its case: a click on an element of the unchanged item set, after a
\* refresh, has started its one activation.
ClickedAfterRefresh ==
  /\ refreshed
  /\ navInDom = Items
  /\ Registered = Items
  /\ activations = 1
  /\ nScrolls = 1

\* C9: mutual exclusivity of the active class: when a tracker check has just
\* finished, at most one registered navigation element carries the active
\* class, and if one does it is the item the check computed.
ExclusiveActive ==
  checked.done =>
    /\ Cardinality(active \cap Registered) <= 1
    /\ (active \cap Registered) \subseteq {checked.item}

\* C9, its case: after a refresh and an activation, a check has just finished
\* and has put the class on the item it computed.
CheckedAndMarked ==
  /\ checked.done
  /\ checked.item \in Items
  /\ active \cap Registered = {checked.item}
  /\ nScrolls > 0
  /\ refreshed

\* The timestamps at which the next frame of the queued closure cb may run, up to
\* the one that ends the animation.
Samples(cb) ==
  IF Falsy(cb.start) THEN {now + 1}
  ELSE (now + 1)..Max(now + 1, cb.start + MaxDuration)

\* b lies between a and c.
Between(a, b, c) == (a <= b /\ b <= c) \/ (c <= b /\ b <= a)

\* C10: animation convergence: the positions an animation writes at successive
\* frames move monotonically from the start S towards T - offset, and the frame
\* with elapsed >= duration writes exactly T - offset.
Convergence ==
  \A k \in 1..Len(rafQueue) :
     LET cb == rafQueue[k]
         goal == (cb.targetDistanceFromTop - offset) * EDen
     IN \A t1 \in Samples(cb) :
           LET a1 == StepArith(cb, t1)
           IN /\ ~a1.isNaN
              /\ Between(cb.startingY * EDen, a1.perTick, goal)
              /\ a1.progress >= duration => a1.perTick = goal
              /\ \A t2 \in Samples(cb) :
                    t2 >= t1 => Between(a1.perTick, StepArith(cb, t2).perTick, goal)

\* Some navigation element of the document links to no element.
DiscoveryFails == \E item \in navInDom : GetElementById(HashTarget(item)) = Null

\* C11: discovery failure is immediate and atomic: while some discovered
\* navigation element links to no element, no step (so no refresh and no
\* initialization) changes the registered items or the click bindings, and
\* mounted() fails without a tracker check, an event or a scroll listener.
DiscoveryAtomic ==
  [][DiscoveryFails =>
       /\ scrollactiveItems' = scrollactiveItems
       /\ itemsIsNull' = itemsIsNull
       /\ clickListeners' = clickListeners
       /\ (phase = "created" /\ phase' = "mounted") =>
            /\ failed'
            /\ ~checked'.done
            /\ emits' = <<>>
            /\ active' = active
            /\ lastActiveItem' = lastActiveItem
            /\ scrollListeners' = <<>>]_vars

\* C11, its case: a refresh has just failed on a document whose navigation
\* elements are no longer the registered ones.
RefreshFailed ==
  /\ failed
  /\ ~itemsIsNull
  /\ DiscoveryFails
  /\ Registered # navInDom

\* The arguments scrollToTarget must reject: no string, or the id of no element.
InvalidTargets ==
  {NotAString} \cup {id \in Items \cup {NoSuchId} : GetElementById(id) = Null}

\* C12: an invalid scroll target is rejected without side effects: in every
\* state of the mounted component, scrollToTarget called with an invalid target
\* fails with an error and leaves the scroll listener, the scheduled frames, the
\* scroll position and lastActiveItem as they were.
InvalidTargetRejected ==
  (phase = "mounted" /\ variant = "bounded") =>
    \A targetId \in InvalidTargets :
       LET w == scrollToTarget(Cur, targetId)
       IN /\ w.failed
          /\ w.scrollListeners = scrollListeners
          /\ w.rafQueue = rafQueue
          /\ w.scrollY = scrollY
          /\ w.lastActiveItem = lastActiveItem

\* The section of item contains the reference position y:
\* y in [offsetTop(target) - offset, offsetTop(target) - offset + clientHeight).
InBand(item, y) ==
  LET itemTop == getOffsetTop(HashTarget(item)) - offset
  IN itemTop <= y /\ y < itemTop + ClientHeight(HashTarget(item))

\* The last of items, in their order, whose band contains y; null when none does.
LastInBand(items, y) ==
  LET inBand == {k \in 1..Len(items) : InBand(items[k], y)}
  IN IF inBand = {} THEN Null
     ELSE items[CHOOSE k \in inBand : \A j \in inBand : j <= k]

\* C13: band-membership selection: every check of the bounded revision computes
\* the last registered item whose band contains the scroll position (none when no
\* band does), records it, and after mounted() emits the change from the previous
\* determination exactly when the two differ.
BandSelection ==
  [][(variant = "bounded" /\ checked'.done) =>
       LET current == LastInBand(scrollactiveItems', scrollY')
       IN /\ checked'.item = current
          /\ lastActiveItem' = current
          /\ phase = "mounted" =>
               emits' = IF current # lastActiveItem
                        THEN <<[currentItem |-> current, previousItem |-> lastActiveItem]>>
                        ELSE <<>>]_vars

\* C13, its case: a check has selected item 2 where item 1 was the previous
\* determination, and has emitted that change.
SelectedSecondAfterFirst ==
  /\ variant = "bounded"
  /\ checked.done
  /\ checked.item = 2
  /\ emits = <<[currentItem |-> 2, previousItem |-> 1]>>

\* The step is a click on item, handled by itemClickHandler (which emits the
\* clicked item, without a previous one).
ClickedOn(item) ==
  \E k \in 1..Len(emits') : emits'[k] = [currentItem |-> item, previousItem |-> Undefined]

\* C14: immediate highlight on click: in the bounded revision with alwaysTrack
\* off, a click puts the active class on the clicked item and on no other
\* registered item, and while the animation goes on no later step changes that.
ImmediateHighlight ==
  [][(variant = "bounded" /\ ~alwaysTrack) =>
       /\ \A item \in Items : ClickedOn(item) => active' \cap Registered' = {item}
       /\ (rafQueue # <<>> /\ rafQueue' # <<>> /\ ~\E item \in Items : ClickedOn(item)) =>
             active' \cap Registered' = active \cap Registered]_vars

\* C15: the completion re-check updates the tracker: when an animation that
\* paused tracking completes in the bounded revision (the deferred re-attach is
\* set up), a check has run, lastActiveItem is the item whose section contains
\* the final scroll position (or none), and a change of it was notified.
CompletionUpdatesTracker ==
  [][(variant = "bounded" /\ timers' > timers) =>
       /\ checked'.done
       /\ lastActiveItem' = LastInBand(scrollactiveItems', scrollY')
       /\ lastActiveItem' # lastActiveItem =>
            \E k \in 1..Len(emits') : emits'[k].currentItem = lastActiveItem']_vars

\* C16: tracker checks are never fatal: no check ends by an exception, and the
\* item a check selects has its section in the document, with a height above 0.
ChecksNeverFatal ==
  /\ ~failed
  /\ (checked.done /\ checked.item \in Items) =>
        /\ GetElementById(HashTarget(checked.item)) # Null
        /\ ClientHeight(HashTarget(checked.item)) > 0

\* The step re-initializes the registry of the mounted component: a refresh that
\* registers another sequence of items.
RegistryReplaced ==
  phase = "mounted" /\ (scrollactiveItems' # scrollactiveItems \/ itemsIsNull' # itemsIsNull)

\* C17: the tracker state is reset on re-initialization: a refresh that replaces
\* the registry leaves lastActiveItem null, so it never refers to an item of the
\* previous registration.
TrackerReset == [][RegistryReplaced => Falsy(lastActiveItem')]_vars

\* The elements that carry the click handler.
Bound == {i \in Items : \E k \in 1..Len(clickListeners[i]) : clickListeners[i][k] = ClickHandler}

\* C18: click bindings follow the registry: after an initialization or a refresh
\* that registers a sequence of items, the elements carrying the click handler
\* are the registered items when clickToScroll is on, and none when it is off.
BindingsFollowRegistry ==
  [][(scrollactiveItems' # scrollactiveItems \/ itemsIsNull' # itemsIsNull) =>
       Bound' = IF clickToScroll THEN Registered' ELSE {}]_vars

\* C19: a configuration error aborts only the scroll request: a scroll request
\* made while the easing function cannot be built fails, schedules no frame and
\* leaves the scroll listener as it was.
ConfigErrorAbortsRequest ==
  [][(~bezierValid /\ nScrolls' > nScrolls) =>
       /\ failed'
       /\ rafQueue' = rafQueue
       /\ scrollListeners' = scrollListeners]_vars

\* The step is a scrollTo or the teardown of the second instance.
OtherActs ==
  \/ other'.nScrolls > other.nScrolls
  \/ other.phase = "mounted" /\ other'.phase = "destroyed"

\* C20: instances do not interfere: a scrollTo or a teardown of the second
\* instance cancels no frame callback of the first: every callback the first
\* instance has scheduled is still scheduled after it.
InstancesIsolated ==
  [][OtherActs =>
       \A k \in 1..Len(rafQueue) :
          rafQueue[k].owner = "A" =>
            \E j \in 1..Len(rafQueue') : rafQueue'[j] = rafQueue[k]]_vars

====
